---- MODULE Spec2Model ----
(***************************************************************************)
(* replace_ucode.py: replace the Intel microcode held in the UEFI FFS      *)
(* files of a firmware image.  Buffers are sequences of bytes (0..255);    *)
(* offsets are 0-based as in the Python source, so the byte at offset i of *)
(* a buffer b is b[i+1].  A 32-bit quantity is kept as its four            *)
(* little-endian bytes, so that sums wrap at 2^32 exactly as c_uint32.     *)
(***************************************************************************)
EXTENDS Integers, Sequences, FiniteSets, TLC

VARIABLES
    orig_rom,    \* line 166: the bytes read from INPUT_ROM
    rom,         \* line 167: the mutable copy every view aliases
    new_ucode,   \* line 171: the bytes read from INPUT_UCODE
    needle,      \* the pattern find_all searches (UCODE_FFS_GUID.bytes_le in __main__)
    pc,          \* position of the run
    err,         \* the exception that ended the run, "" if none
    pos,         \* find_all: where the next haystack.find starts
    offset,      \* __main__: the offset find_all yielded last
    yielded,     \* every offset find_all has yielded, in order
    hits,        \* history: one record per scan hit processed by __main__
    bstart,      \* ffs.body as a view of rom: rom[bstart:bend]
    bend,
    wdata,       \* print_concatenated_ucode: its argument
    woff,        \* print_concatenated_ucode: its cursor `offset`
    blobs,       \* history: one record per IntelUCode the walker accepted
    outfile,     \* line 206: the bytes written to OUTPUT_ROM
    written      \* whether line 206 was reached

vars == <<orig_rom, rom, new_ucode, needle, pc, err, pos, offset, yielded, hits,
          bstart, bend, wdata, woff, blobs, outfile, written>>

-----------------------------------------------------------------------------
(* Bounds of the model *)

\* how many pieces (records, padding) an input image is assembled from
MaxPieces == 2
\* how many blobs the chain walker may accept before the model stops following it,
\* and how many pieces a standalone walker buffer is assembled from
MaxBlobs == 3
\* longest haystack of the standalone scanner runs
MaxHay == 6
\* longest needle of the standalone scanner runs
MaxNeedle == 2
\* the body bytes left after the replacement in a body that holds it and Slack more
Slack == 4

(* Sizes fixed by the source *)
FFSHdrLen == 24
UcodeHdrLen == 48
FillByte == 255

-----------------------------------------------------------------------------
(* Python slicing and bytes.find *)

Min2(a, b) == IF a <= b THEN a ELSE b
Max2(a, b) == IF a >= b THEN a ELSE b

\* data[a:b] for 0 <= a, 0 <= b (indices are clamped to len(data))
Slice(data, a, b) == SubSeq(data, Min2(a, Len(data)) + 1, Min2(b, Len(data)))

\* a find that starts one byte late
find_skip(haystack, ndl, start) ==
    LET S == {i \in (start + 1) .. (Len(haystack) - Len(ndl)) :
                 SubSeq(haystack, i + 1, i + Len(ndl)) = ndl}
    IN IF S = {} THEN -1 ELSE CHOOSE i \in S : \A j \in S : i <= j

\* haystack.find(needle, start): the lowest offset >= start of an occurrence, -1 if none
find(haystack, ndl, start) ==
    LET S == {i \in start .. (Len(haystack) - Len(ndl)) :
                 SubSeq(haystack, i + 1, i + Len(ndl)) = ndl}
    IN IF S = {} THEN -1 ELSE CHOOSE i \in S : \A j \in S : i <= j

-----------------------------------------------------------------------------
(* Checksum engine: array_sum(data, typ) *)

RECURSIVE SumBytes(_, _, _, _)
\* data[k] + data[k + step] + ... for the 1-based indices k <= last
SumBytes(data, k, step, last) ==
    IF k > last THEN 0 ELSE data[k] + SumBytes(data, k + step, step, last)

\* array_sum(data, u8): the bytes of data, summed, & 0xff
array_sum_u8(data) == SumBytes(data, 1, 1, Len(data)) % 256

\* array_sum(data, u32): the len(data) // 4 little-endian words of data, summed,
\* & 0xffffffff; the trailing len(data) % 4 bytes are not part of the array.
\* The result is given as its four little-endian bytes; the sum is taken lane by
\* lane and the carries are then propagated, which is the sum of the words mod 2^32.
array_sum_u32(data) ==
    LET last == 4 * (Len(data) \div 4)
        t0 == SumBytes(data, 1, 4, last)
        t1 == SumBytes(data, 2, 4, last) + (t0 \div 256)
        t2 == SumBytes(data, 3, 4, last) + (t1 \div 256)
        t3 == SumBytes(data, 4, 4, last) + (t2 \div 256)
    IN <<t0 % 256, t1 % 256, t2 % 256, t3 % 256>>

Zero32 == <<0, 0, 0, 0>>

\* a c_uint32 field held as four little-endian bytes, compared with an int n >= 0
U32Le(b, n) == b[4] < 128 /\ b[1] + 256 * b[2] + 65536 * b[3] + 16777216 * b[4] <= n

\* min(value of the c_uint32 field, n) for an int n >= 0: the stop of data[:field]
U32Clamp(b, n) ==
    IF U32Le(b, n) THEN b[1] + 256 * b[2] + 65536 * b[3] + 16777216 * b[4] ELSE n

-----------------------------------------------------------------------------
(* Structure codec: the fields the program reads *)

\* EfiFFSHeader.ChkData, byte 17
FFS_ChkData(data) == data[18]
\* EfiFFSHeader.Size, the low 24 bits of the little-endian word at bytes 20..23
FFS_Size(data) == data[21] + 256 * data[22] + 65536 * data[23]
\* EfiFFSHeader.State, the high 8 bits of that word
FFS_State(data) == data[24]
\* IntelUcodeHeader.TotalSize, the little-endian word at bytes 32..35
Ucode_TotalSize(data) == SubSeq(data, 33, 36)

\* from_buffer_copy(data, 0) raises ValueError when data is shorter than the structure
FFS_Decodes(data) == Len(data) >= FFSHdrLen
Ucode_Decodes(data) == Len(data) >= UcodeHdrLen

\* FFS.__init__: chk = array_sum(data[0:24], u8) - ChkData - State, & 0xff
FFS_chk(data) ==
    (array_sum_u8(Slice(data, 0, FFSHdrLen)) - FFS_ChkData(data) - FFS_State(data)) % 256

\* FFS.__init__ does not raise ChksumError
FFS_ChkOK(data) == FFS_chk(data) = 0

\* a body that runs to the end of the image whatever Size says: data[24:]
FFS_BodyStop_ToEnd(data) == Max2(FFSHdrLen, Len(data))

\* FFS.__init__: self.body = data[24:Size], as the (start, stop) offsets in data
FFS_BodyStop(data) == Max2(FFSHdrLen, Min2(FFS_Size(data), Len(data)))

\* IntelUCode.__init__: self.data = data[:TotalSize]
Ucode_Data(data) == Slice(data, 0, U32Clamp(Ucode_TotalSize(data), Len(data)))

\* an IntelUCode.__init__ that never raises ChksumError
Ucode_ChkOK_Skip(data) == TRUE

\* IntelUCode.__init__ does not raise ChksumError
Ucode_ChkOK(data) == array_sum_u32(Ucode_Data(data)) = Zero32

-----------------------------------------------------------------------------
(* Inputs: the images and replacement files the runs are started on *)

\* UCODE_FFS_GUID.bytes_le
UCODE_FFS_GUID == <<54, 178, 125, 25, 86, 248, 36, 73, 144, 248, 205, 241, 47, 184, 117, 243>>

Rep(b, n) == [i \in 1 .. n |-> b]
Garbage(n) == Rep(17, n)

\* the 32-bit two's complement of a word given as four little-endian bytes
Neg32(r) ==
    LET a0 == (255 - r[1]) + 1
        a1 == (255 - r[2]) + (a0 \div 256)
        a2 == (255 - r[3]) + (a1 \div 256)
        a3 == (255 - r[4]) + (a2 \div 256)
    IN <<a0 % 256, a1 % 256, a2 % 256, a3 % 256>>

\* a 24-byte EfiFFSHeader with the GUID and the given Size; ChkHdr makes the header
\* sum to zero (good) or to one (not good); ChkData = 0xAA, Type = 1, State = 0xF8
MkFFSHeader(size, good) ==
    LET rest == <<170, 1, 0, size % 256, (size \div 256) % 256, (size \div 65536) % 256, 248>>
        s == array_sum_u8(UCODE_FFS_GUID) + 1 + rest[4] + rest[5] + rest[6]
        hc == ((IF good THEN 0 ELSE 1) - s) % 256
    IN UCODE_FFS_GUID \o <<hc>> \o rest

\* a 48-byte IntelUcodeHeader followed by the bytes of tail: 32 given bytes, TotalSize,
\* 8 bytes of 0x44, and a Reserved word that makes the words of the whole sum to zero
MkBlob(head32, total, tail) ==
    LET pre == head32 \o <<total % 256, total \div 256, 0, 0>> \o Rep(68, 8)
    IN pre \o Neg32(array_sum_u32(pre \o tail)) \o tail

\* replacement files
UcodeKinds == {"plain", "guid_ok", "guid_bad", "badsum", "short", "zero"}
Ucode(kind) ==
    CASE kind = "plain"    -> MkBlob(<<1, 0, 0, 0>> \o Rep(34, 28), UcodeHdrLen, <<>>)
      [] kind = "guid_ok"  -> MkBlob(MkFFSHeader(FFSHdrLen + UcodeHdrLen, TRUE) \o Rep(51, 8),
                                     UcodeHdrLen, <<>>)
      [] kind = "guid_bad" -> MkBlob(MkFFSHeader(FFSHdrLen + UcodeHdrLen, FALSE) \o Rep(51, 8),
                                     UcodeHdrLen, <<>>)
      [] kind = "badsum"   -> [MkBlob(<<1, 0, 0, 0>> \o Rep(34, 28), UcodeHdrLen, <<>>)
                                 EXCEPT ![UcodeHdrLen] = (@ + 1) % 256]
      [] kind = "short"    -> <<1, 0, 0, 0>>
      [] kind = "zero"     -> Rep(0, UcodeHdrLen)

\* the pieces an image is assembled from; u is the replacement file of the run
PieceKinds == {"pad", "fit", "same", "bad", "small", "over", "trunc", "old", "zero"}
Piece(kind, u) ==
    LET room == Len(u) + Slack
        old == MkBlob(<<1, 0, 0, 0>> \o Rep(85, 28), UcodeHdrLen, <<>>)
        oldbody == old \o Garbage(Max2(0, room - Len(old)))
    IN CASE kind = "pad"   -> Garbage(8)
         [] kind = "fit"   -> MkFFSHeader(FFSHdrLen + room, TRUE) \o Garbage(room)
         [] kind = "same"  -> MkFFSHeader(FFSHdrLen + room, TRUE) \o u \o Rep(FillByte, Slack)
         [] kind = "bad"   -> MkFFSHeader(FFSHdrLen + 8, FALSE) \o Garbage(8)
         [] kind = "small" -> MkFFSHeader(FFSHdrLen + 8, TRUE) \o Garbage(8)
         [] kind = "over"  -> MkFFSHeader(FFSHdrLen + room + FFSHdrLen, TRUE) \o Garbage(room)
         [] kind = "trunc" -> UCODE_FFS_GUID \o Garbage(4)
         [] kind = "old"   -> MkFFSHeader(FFSHdrLen + Len(oldbody), TRUE) \o oldbody
         [] kind = "zero"  -> MkFFSHeader(FFSHdrLen + UcodeHdrLen, TRUE) \o Rep(0, UcodeHdrLen)

RECURSIVE Concat(_, _)
\* the pieces of the kinds ks, one after the other
Concat(ks, u) == IF ks = <<>> THEN <<>> ELSE Piece(Head(ks), u) \o Concat(Tail(ks), u)

\* the sequences of at most n elements of S
SeqsUpTo(S, n) == UNION {[1 .. k -> S] : k \in 0 .. n}

-----------------------------------------------------------------------------
(* The run of __main__ *)

Init ==
    /\ \E uk \in UcodeKinds, ks \in SeqsUpTo(PieceKinds, MaxPieces) :
          /\ new_ucode = Ucode(uk)
          /\ orig_rom = Concat(ks, Ucode(uk))
          /\ rom = Concat(ks, Ucode(uk))
    /\ needle = UCODE_FFS_GUID
    /\ pc = "start"
    /\ err = ""
    /\ pos = 0
    /\ offset = 0
    /\ yielded = <<>>
    /\ hits = <<>>
    /\ bstart = 0
    /\ bend = 0
    /\ wdata = <<>>
    /\ woff = 0
    /\ blobs = <<>>
    /\ outfile = <<>>
    /\ written = FALSE

\* an uncaught exception ends the run
Raise(e) == pc' = "failed" /\ err' = e

\* line 175: IntelUCode(new_ucode); line 177: print_concatenated_ucode(new_ucode) is entered
ValidateUcode ==
    /\ pc = "start"
    /\ IF ~Ucode_Decodes(new_ucode)
       THEN Raise("ValueError") /\ UNCHANGED <<wdata>>
       ELSE IF ~Ucode_ChkOK(new_ucode)
            THEN Raise("ChksumError") /\ UNCHANGED <<wdata>>
            ELSE pc' = "walk_new" /\ wdata' = new_ucode /\ UNCHANGED err
    /\ woff' = 0
    /\ blobs' = <<>>
    /\ UNCHANGED <<orig_rom, rom, new_ucode, needle, pos, offset, yielded, hits,
                   bstart, bend, outfile, written>>

\* where print_concatenated_ucode is running
Walking == pc \in {"walk_new", "walk_body", "walk"}

\* print_concatenated_ucode, line 144: IntelUCode(data[offset:]) returns
WalkerAccepts(data, off) ==
    LET d == Slice(data, off, Len(data)) IN Ucode_Decodes(d) /\ Ucode_ChkOK(d)

\* print_concatenated_ucode, line 147: len(ucode.data)
WalkerAdvance(data, off) == Len(Ucode_Data(Slice(data, off, Len(data))))

\* lines 143-147: one turn of the loop that finds a valid blob at the cursor
WalkAccept ==
    /\ Walking
    /\ WalkerAccepts(wdata, woff)
    /\ Len(blobs) < MaxBlobs
    /\ blobs' = Append(blobs, [at |-> woff,
                               total |-> Ucode_TotalSize(Slice(wdata, woff, Len(wdata))),
                               adv |-> WalkerAdvance(wdata, woff)])
    /\ woff' = woff + WalkerAdvance(wdata, woff)
    /\ UNCHANGED <<orig_rom, rom, new_ucode, needle, pc, err, pos, offset, yielded, hits,
                   bstart, bend, wdata, outfile, written>>

\* lines 148-156: the first header that does not decode or validate ends the walk
WalkStop ==
    /\ Walking
    /\ ~WalkerAccepts(wdata, woff)
    /\ pc' = CASE pc = "walk_new" -> "scan"
               [] pc = "walk_body" -> "erase"
               [] pc = "walk" -> "walked"
    /\ UNCHANGED <<orig_rom, rom, new_ucode, needle, err, pos, offset, yielded, hits,
                   bstart, bend, wdata, woff, blobs, outfile, written>>

\* find_all, lines 133-138: from the yield point, pos += len(needle) has been applied to
\* pos, and the generator is resumed: the next find, then a yield or the return.
\* __main__ iterates over find_all(rom.obj, ...), so the haystack is rom as it is now.
find_all_next ==
    /\ pc \in {"scan", "find"}
    /\ LET p == find(rom, needle, pos) IN
          IF p < 0
          THEN /\ pc' = (IF pc = "scan" THEN "check" ELSE "found")
               /\ UNCHANGED <<pos, offset, yielded>>
          ELSE /\ pc' = (IF pc = "scan" THEN "ffs" ELSE "find")
               /\ offset' = p
               /\ yielded' = Append(yielded, p)
               /\ pos' = p + Len(needle)
    /\ UNCHANGED <<orig_rom, rom, new_ucode, needle, err, hits, bstart, bend,
                   wdata, woff, blobs, outfile, written>>

\* the record __main__'s loop body leaves of a hit
Hit(data, stage) ==
    [off |-> offset,
     size |-> IF FFS_Decodes(data) THEN FFS_Size(data) ELSE -1,
     chk |-> IF FFS_Decodes(data) THEN FFS_chk(data) ELSE -1,
     stage |-> stage]

\* lines 186-189 and 197-198: FFS(rom[offset:]); a ChksumError is caught and the hit
\* skipped, a ValueError is not caught; print_concatenated_ucode(ffs.body) is entered
DecodeFFS ==
    /\ pc = "ffs"
    /\ LET data == Slice(rom, offset, Len(rom)) IN
          IF ~FFS_Decodes(data)
          THEN /\ Raise("ValueError")
               /\ hits' = Append(hits, Hit(data, "short"))
               /\ UNCHANGED <<bstart, bend, wdata>>
          ELSE IF ~FFS_ChkOK(data)
               THEN /\ pc' = "scan"
                    /\ hits' = Append(hits, Hit(data, "skipped"))
                    /\ UNCHANGED <<err, bstart, bend, wdata>>
               ELSE /\ pc' = "walk_body"
                    /\ hits' = Append(hits, Hit(data, "valid"))
                    /\ bstart' = offset + FFSHdrLen
                    /\ bend' = offset + FFS_BodyStop(data)
                    /\ wdata' = Slice(rom, offset + FFSHdrLen, offset + FFS_BodyStop(data))
                    /\ UNCHANGED err
    /\ woff' = 0
    /\ blobs' = <<>>
    /\ UNCHANGED <<orig_rom, rom, new_ucode, needle, pos, offset, yielded, outfile, written>>

\* the last hit's record with its stage advanced
Staged(stage) == [hits EXCEPT ![Len(hits)].stage = stage]

\* an erase that fills with 0x00
EraseView_Zero(buf, a, b) == [i \in 1 .. Len(buf) |-> IF a < i /\ i <= b THEN 0 ELSE buf[i]]

\* line 192: view[:] = bytes([0xff] * len(view)) for the view buf[a:b]
EraseView(buf, a, b) == [i \in 1 .. Len(buf) |-> IF a < i /\ i <= b THEN FillByte ELSE buf[i]]

\* line 195: view[:len(content)] = content for the view buf[a:b], len(content) <= b - a
CopyToView(buf, a, b, content) ==
    [i \in 1 .. Len(buf) |-> IF a < i /\ i <= a + Len(content) THEN content[i - a] ELSE buf[i]]

\* line 192
Erase ==
    /\ pc = "erase"
    /\ rom' = EraseView(rom, bstart, bend)
    /\ hits' = Staged("erased")
    /\ pc' = "copy"
    /\ UNCHANGED <<orig_rom, new_ucode, needle, err, pos, offset, yielded, bstart, bend,
                   wdata, woff, blobs, outfile, written>>

\* line 195: a memoryview slice cannot change size; ffs.body[:n] has min(n, len(body))
\* bytes and a longer right-hand side raises ValueError, which line 197 does not catch
Copy ==
    /\ pc = "copy"
    /\ IF Len(new_ucode) > bend - bstart
       THEN Raise("ValueError") /\ UNCHANGED <<rom, hits>>
       ELSE /\ rom' = CopyToView(rom, bstart, bend, new_ucode)
            /\ hits' = Staged("copied")
            /\ pc' = "scan"
            /\ UNCHANGED err
    /\ UNCHANGED <<orig_rom, new_ucode, needle, pos, offset, yielded, bstart, bend,
                   wdata, woff, blobs, outfile, written>>

\* an assert that always passes
NotIdentical_Always(a, b) == TRUE

\* an assert that compares the lengths only
NotIdentical_Len(a, b) == Len(a) # Len(b)

\* line 203: the condition of the assert
NotIdentical(a, b) == a # b

\* lines 202-203
Check ==
    /\ pc = "check"
    /\ IF Len(rom) = Len(orig_rom) /\ NotIdentical(rom, orig_rom)
       THEN pc' = "write" /\ UNCHANGED err
       ELSE Raise("AssertionError")
    /\ UNCHANGED <<orig_rom, rom, new_ucode, needle, pos, offset, yielded, hits, bstart, bend,
                   wdata, woff, blobs, outfile, written>>

\* line 206
Write ==
    /\ pc = "write"
    /\ outfile' = rom
    /\ written' = TRUE
    /\ pc' = "done"
    /\ UNCHANGED <<orig_rom, rom, new_ucode, needle, err, pos, offset, yielded, hits,
                   bstart, bend, wdata, woff, blobs>>

Next ==
    \/ ValidateUcode
    \/ WalkAccept
    \/ WalkStop
    \/ find_all_next
    \/ DecodeFFS
    \/ Erase
    \/ Copy
    \/ Check
    \/ Write

Spec == Init /\ [][Next]_vars

-----------------------------------------------------------------------------
(* print_concatenated_ucode on its own, on buffers of every shape *)

ChainKinds == {"blob", "blob_tail", "odd", "beyond", "tiny", "zero", "garbage", "short"}
ChainPiece(kind) ==
    LET head == <<1, 0, 0, 0>> \o Rep(34, 28)
    IN CASE kind = "blob"      -> MkBlob(head, UcodeHdrLen, <<>>)
         [] kind = "blob_tail" -> MkBlob(head, UcodeHdrLen + 4, <<7, 7, 7, 7>>)
         [] kind = "odd"       -> MkBlob(head, UcodeHdrLen + 2, <<9, 9>>)
         [] kind = "beyond"    -> MkBlob(head, UcodeHdrLen + 4, <<>>)
         [] kind = "tiny"      -> MkBlob(head, 2, <<>>)
         [] kind = "zero"      -> Rep(0, UcodeHdrLen)
         [] kind = "garbage"   -> Garbage(UcodeHdrLen)
         [] kind = "short"     -> Garbage(4)

RECURSIVE Chain(_)
Chain(ks) == IF ks = <<>> THEN <<>> ELSE ChainPiece(Head(ks)) \o Chain(Tail(ks))

InitWalk ==
    /\ \E ks \in SeqsUpTo(ChainKinds, MaxBlobs) : wdata = Chain(ks)
    /\ pc = "walk"
    /\ woff = 0
    /\ blobs = <<>>
    /\ orig_rom = <<>>
    /\ rom = <<>>
    /\ new_ucode = <<>>
    /\ needle = UCODE_FFS_GUID
    /\ err = ""
    /\ pos = 0
    /\ offset = 0
    /\ yielded = <<>>
    /\ hits = <<>>
    /\ bstart = 0
    /\ bend = 0
    /\ outfile = <<>>
    /\ written = FALSE

NextWalk ==
    \/ WalkAccept
    \/ WalkStop

SpecWalk == InitWalk /\ [][NextWalk]_vars

-----------------------------------------------------------------------------
(* find_all on its own, on a haystack nothing modifies *)

Bits == {0, 1}

InitFind ==
    /\ \E h \in SeqsUpTo(Bits, MaxHay), n \in SeqsUpTo(Bits, MaxNeedle) :
          /\ n # <<>>
          /\ rom = h
          /\ orig_rom = h
          /\ needle = n
    /\ pc = "find"
    /\ pos = 0
    /\ offset = 0
    /\ yielded = <<>>
    /\ new_ucode = <<>>
    /\ err = ""
    /\ hits = <<>>
    /\ bstart = 0
    /\ bend = 0
    /\ wdata = <<>>
    /\ woff = 0
    /\ blobs = <<>>
    /\ outfile = <<>>
    /\ written = FALSE

NextFind == find_all_next

SpecFind == InitFind /\ [][NextFind]_vars

-----------------------------------------------------------------------------
(* Properties *)

N == Len(orig_rom)
LastHit == hits[Len(hits)]
SomeCopied == \E i \in DOMAIN hits : hits[i].stage = "copied"

\* C1: in every state of a run, the image keeps the length of the original, and a byte
\* that differs from the original lies in the body range [o+24, min(o+Size, N)) of a
\* hit at o whose header passed checksum validation.
C1_OnlyBodiesChange ==
    /\ Len(rom) = N
    /\ \A i \in 1 .. N :
          rom[i] # orig_rom[i] =>
             \E k \in DOMAIN hits :
                /\ hits[k].chk = 0
                /\ hits[k].off + FFSHdrLen < i
                /\ i <= Min2(hits[k].off + hits[k].size, N)

\* C1 witness: the replacement was longer than the body of a valid record; the body was
\* erased, the copy raised, and the run ended there.
C1_Witness ==
    /\ pc = "failed"
    /\ err = "ValueError"
    /\ hits # <<>>
    /\ LastHit.stage = "erased"
    /\ Len(new_ucode) > LastHit.size - FFSHdrLen
    /\ rom # orig_rom

\* C2: right after the patch of a valid hit at o with o + Size <= N and
\* L = len(replacement) <= Size - 24, the L bytes at o+24 are the replacement and
\* every byte of [o+24+L, o+Size) is 0xFF.
C2_PatchedBody ==
    (/\ pc = "scan"
     /\ hits # <<>>
     /\ LastHit.stage = "copied"
     /\ LastHit.chk = 0
     /\ LastHit.off + LastHit.size <= N
     /\ Len(new_ucode) <= LastHit.size - FFSHdrLen)
    => /\ SubSeq(rom, LastHit.off + FFSHdrLen + 1, LastHit.off + FFSHdrLen + Len(new_ucode))
             = new_ucode
       /\ \A i \in (LastHit.off + FFSHdrLen + Len(new_ucode) + 1) .. (LastHit.off + LastHit.size) :
             rom[i] = 255

\* C2 witness: a patch has just ended on a body with room left after the replacement.
C2_Witness ==
    /\ pc = "scan"
    /\ hits # <<>>
    /\ LastHit.stage = "copied"
    /\ LastHit.chk = 0
    /\ LastHit.off + LastHit.size <= N
    /\ Len(new_ucode) < LastHit.size - FFSHdrLen

\* the replacement file is one line 175 accepts: 48 bytes or more, and the words of
\* its first TotalSize bytes sum to zero
UcodeValid ==
    /\ Len(new_ucode) >= 48
    /\ array_sum_u32(Slice(new_ucode, 0,
                           U32Clamp(SubSeq(new_ucode, 33, 36), Len(new_ucode)))) = <<0, 0, 0, 0>>

\* C3: while no hit has passed checksum validation (there was no hit, or each failed),
\* the image is the original and the write step is not reached; and when every hit
\* failed its checksum, a run of a valid replacement can only fail at the
\* 'identical to original' assert.
C3_NoPatchNoOutput ==
    /\ (\A k \in DOMAIN hits : hits[k].chk # 0) =>
          /\ rom = orig_rom
          /\ ~written
          /\ pc \notin {"write", "done"}
    /\ ((\A k \in DOMAIN hits : hits[k].chk > 0) /\ UcodeValid /\ pc = "failed") =>
          err = "AssertionError"

\* C3 witness: the scan found occurrences, each failed its checksum, and the run
\* failed at the assert.
C3_Witness ==
    /\ pc = "failed"
    /\ err = "AssertionError"
    /\ hits # <<>>
    /\ \A k \in DOMAIN hits : hits[k].chk > 0

\* C4: a replacement that fails validation ends the run before the scan: nothing was
\* searched, no byte of the image was changed, the write step is not reached.
C4_InvalidUcodeAborts ==
    ~UcodeValid =>
       /\ pc \in {"start", "failed"}
       /\ rom = orig_rom
       /\ yielded = <<>>
       /\ hits = <<>>
       /\ ~written

\* C4 witness: a replacement of full length whose checksum is wrong was rejected, on
\* an image that holds a record.
C4_Witness ==
    /\ pc = "failed"
    /\ err = "ChksumError"
    /\ Len(new_ucode) >= 48
    /\ find(orig_rom, needle, 0) >= 0

\* C5 (as claimed): a hit whose header does not decode or validate never ends the
\* run: after such a hit the run is not in an abort (the end-of-run assert apart).
C5_HitFailureIsSkipped ==
    (hits # <<>> /\ LastHit.chk # 0) => ~(pc = "failed" /\ err # "AssertionError")

\* C6 (as claimed): when the scan loop has ended, the image differs from the original
\* exactly when some hit was patched.
C6_DiffersIffPatched ==
    pc = "check" => ((rom # orig_rom) <=> SomeCopied)

\* C6 (amended): when the scan loop has ended, an image that differs from the original
\* has had a hit patched; the assert lets the write happen exactly when the image
\* differs from the original.
C6_WriteIffDiffers ==
    /\ (pc = "check" /\ rom # orig_rom) => SomeCopied
    /\ pc \in {"write", "done"} => (rom # orig_rom /\ SomeCopied)
    /\ (pc = "failed" /\ err = "AssertionError") => rom = orig_rom

\* C6 witness: a hit was patched with the bytes its body already held, and the run
\* failed at the assert.
C6_Witness ==
    /\ pc = "failed"
    /\ err = "AssertionError"
    /\ SomeCopied

\* C7 (as claimed): once a hit at o is patched, every later hit is at o + Size or
\* beyond.
C7_NoHitInsidePatchedBody ==
    \A i, j \in DOMAIN hits :
       (i < j /\ hits[i].stage = "copied") => hits[j].off >= hits[i].off + hits[i].size

RECURSIVE SumTotals(_)
\* the sum of the TotalSize fields of accepted blobs, each below 2^31
SumTotals(bs) ==
    IF bs = <<>> THEN 0
    ELSE LET t == Head(bs).total
         IN t[1] + 256 * t[2] + 65536 * t[3] + 16777216 * t[4] + SumTotals(Tail(bs))

\* C8 (as claimed): every blob the walker accepts at cursor c has
\* TotalSize <= len(buffer) - c, and when the walker stops its cursor is the sum of the
\* TotalSize fields of the accepted blobs.
C8_AcceptedBlobsInside ==
    /\ \A k \in DOMAIN blobs : U32Le(blobs[k].total, Len(wdata) - blobs[k].at)
    /\ pc = "walked" => woff = SumTotals(blobs)

\* C9 (as claimed): every blob the walker accepts moves the cursor forward.
C9_WalkerAdvances ==
    \A k \in DOMAIN blobs : blobs[k].adv > 0

\* the offsets at which the needle occurs in the haystack
Occurrences == {i \in 0 .. (Len(rom) - Len(needle)) : SubSeq(rom, i + 1, i + Len(needle)) = needle}
NonOverlapping == \A a, b \in Occurrences : a < b => a + Len(needle) <= b

\* C10: on an unmodified haystack, what find_all yields is strictly ascending and each
\* an occurrence of the needle; and when the occurrences do not overlap, find_all
\* has yielded exactly the occurrences when it ends.
C10_FindAllComplete ==
    /\ \A k \in DOMAIN yielded : yielded[k] \in Occurrences
    /\ \A k \in DOMAIN yielded : k > 1 => yielded[k - 1] < yielded[k]
    /\ (pc = "found" /\ NonOverlapping) =>
          /\ {yielded[k] : k \in DOMAIN yielded} = Occurrences
          /\ Len(yielded) = Cardinality(Occurrences)

\* C10 witness: find_all ended after yielding several abutting or separate occurrences
\* of a two-byte needle.
C10_Witness ==
    /\ pc = "found"
    /\ NonOverlapping
    /\ Len(needle) = 2
    /\ Len(yielded) >= 2

====
